---- MODULE Spec2Model ----
(***************************************************************************)
(* Garden automation: the actuator control service (control_module/main.py) *)
(* and its safety-interlocked watering sequence water(duration).           *)
(*                                                                         *)
(* Program positions are named after the source line of the statement that *)
(* is executed next ("L62" = control_module/main.py line 62).  Time is in  *)
(* milliseconds, as in the source.                                         *)
(***************************************************************************)
EXTENDS Integers, Sequences, FiniteSets, TLC

VARIABLES
    valve,          \* hardware: valve output, "open" / "closed"      (valve_pin)
    pump,           \* hardware: pump output, "on" / "off"             (pump_pin)
    float_low,      \* hardware: float_switch_low_pin.value() == 1
    ticks,          \* time.ticks_ms(): wrapping millisecond counter
    pc,             \* position inside water(); "idle" outside a call
    duration,       \* water()'s argument, seconds
    valve_opened,   \* local of water()
    pump_engaged,   \* local of water()
    wait,           \* which sleep_until_timeout_or_float_switch_low call runs
    start,          \* local _start of the running wait
    elapsed,        \* local _elapsed_time of the running wait
    exc,            \* exception in flight inside water(): none / float / fault
    retval,         \* return value pending while the outer finally runs
    result,         \* outcome of the last finished call: none/true/false/raised
    faults,         \* number of exceptions injected into the running call
    svc,            \* position inside main()'s accept loop
    payload,        \* the request read from the current connection
    conn,           \* client_socket: "none" / "open" / "closed"
    sent,           \* responses sent on the current connection
    svc_exc,        \* an exception is propagating out of the accept loop
    \* ---- history variables (observations, not program state) ----
    cmds,           \* pin commands issued by the running/last water() call
    waited,         \* real ms spent in the running wait (saturating)
    pump_waited,    \* real ms the finished pump-on wait lasted; -1 if none
    since_off,      \* real ms since pump_pin.off() in this call; -1 if none
    polls_low,      \* places where a float-switch check read low in this call
    fault_at,       \* positions at which an exception was injected in this call
    low_since,      \* phase in which the float switch last turned low; "ok" if not low
    low_on,         \* ms the pump has been on with the float switch low; 0 when it is not
    invoked,        \* number of actions dispatched for the current connection
    \* ---- the service's listening socket ----
    backlog,        \* clients that have connected and wait to be accepted
    \* ---- main(), main_module/main.py: the scheduler process and its files ----
    spc,            \* control position: "off" (no process) or the line about to run
    store,          \* the schedule file: does it decode, and the schedule in it
    checkpoint,     \* the last-watering file: None when absent, else Some(<<hour, minute>>)
    clock,          \* wall clock, minute of the day
    day,            \* wall clock, day number
    new_schedule,   \* local of main()
    cur_schedule,   \* local of main(): None or Some(schedule)
    cur_regimen,    \* local of main(): None or Some(list of minutes)
    now,            \* local of main(): <<hour, minute>> read at line 131
    last_scheduled_time,    \* local of main(): <<hour, minute>>
    last_watered_at_time,   \* local of main(): None or Some(<<hour, minute>>)
    succeeded,      \* local of main()
    \* ---- history of the scheduler, for the properties ----
    now_day,        \* the day on which now was read
    booted,         \* the scheduler process has been started at least once
    load_failed,    \* the last Schedule.load() of this process raised JSONDecodeError
    dumps,          \* number of times the operator saved a schedule
    reached,        \* the slot occurrence <<day, minute>> the clock last reached
                    \* during a sleep of the loop; None before the first
    tick_fired,     \* water() was called in the current iteration
    last_fired,     \* the slot occurrence water() was last called for, or None
    refired,        \* the first slot occurrence water() was called for twice in a row
    fired_life,     \* <<day of the call, slot occurrence>> of the calls this
                    \* process made on the day of its latest call
    refired_life,   \* the first of those this process called again on that day
    \* ---- calls of the pure functions of main_module/main.py on their own ----
    f_schedule,     \* None, or Some(argument) of the latest get_watering_regimen call
    f_regimen,      \* what that call returned
    f_prev,         \* None, or Some(<<schedule, regimen>>) of the call before it
    f_args,         \* <<regimen, now>> of the latest get_last_scheduled_watering_time call
    f_slot,         \* what that call returned
    \* ---- water() of main_module/main.py, lines 25-50 ----
    cpc,            \* "idle", the line the call is at, "ret" or "raised"
    c_sock,         \* conn: "none", "open", "reset", "shut_wr" (write side closed), "closed"
    c_wire,         \* what the call has written: "nothing", or "request"
    c_pending,      \* TRUE while return False of line 37 waits for the finally
    c_resp,         \* response_raw of line 43, "none" before
    c_ret,          \* None, or Some(value returned)
    c_exc,          \* "none", or the exception that leaves the call
    c_fault         \* history: "none", or the transport fault the call met

hwVars    == <<valve, pump, float_low, ticks>>
waterVars == <<pc, duration, valve_opened, pump_engaged, wait, start, elapsed,
               exc, retval, result, faults>>
svcVars   == <<svc, payload, conn, sent, svc_exc>>
histVars  == <<cmds, waited, pump_waited, since_off, polls_low, fault_at,
               low_since, low_on, invoked>>
netVars   == <<backlog>>
schedVars == <<spc, store, checkpoint, clock, day, new_schedule, cur_schedule,
               cur_regimen, now, last_scheduled_time, last_watered_at_time, succeeded>>
schedHist == <<now_day, booted, load_failed, dumps, reached, tick_fired, last_fired, refired,
               fired_life, refired_life>>
pureVars  == <<f_schedule, f_regimen, f_prev, f_args, f_slot>>
cliVars   == <<cpc, c_sock, c_wire, c_pending, c_resp, c_ret, c_exc, c_fault>>
extVars   == <<netVars, schedVars, schedHist, pureVars, cliVars>>
vars      == <<hwVars, waterVars, svcVars, histVars, extVars>>

----------------------------------------------------------------------------
(* Program constants *)
FLOAT_SWITCH_CHECK_PERIOD_MS == 300
PUMP_BUFFER_SLEEP_MS == 10 * 1000

(* Bounds of the model *)
TICKS_PERIOD == 16384      \* wrap modulus of time.ticks_ms() (2^30 on the device)
MaxDuration == 1           \* largest requested duration, seconds
BACKLOG == 1               \* server_socket.listen(1)
MaxFaults == 1             \* exceptions injected per water() call

Min(a, b) == IF a <= b THEN a ELSE b

WaitCap == PUMP_BUFFER_SLEEP_MS + MaxDuration * 1000 + FLOAT_SWITCH_CHECK_PERIOD_MS
Sat(n) == Min(n, WaitCap)

(* Values of the tick counter when a connection is accepted: far from the  *)
(* wrap, and close enough to it that it wraps during either wait.          *)
StartTicks == {0, TICKS_PERIOD - PUMP_BUFFER_SLEEP_MS - 500, TICKS_PERIOD - 5000}

----------------------------------------------------------------------------
(* Request payloads.  A payload is described by what the service's checks   *)
(* can observe of it: whether it is empty, whether its last character is a *)
(* newline, what json.loads makes of it, and the fields of the object.     *)

Durations == 0..MaxDuration

Payload(e, n, j, r, a, d) ==
    [empty |-> e, nl |-> n, json |-> j, request |-> r, args |-> a, duration |-> d]

NoPayload == Payload(TRUE, FALSE, "bad", "absent", "absent", 0)

Payloads ==
    {NoPayload}
    \cup {Payload(FALSE, n, j, "absent", "absent", 0) :
              n \in BOOLEAN, j \in {"bad", "scalar", "array"}}
    \cup {Payload(FALSE, n, "object", r, a, 0) :
              n \in BOOLEAN, r \in {"absent", "wash", "water"},
              a \in {"absent", "null", "empty"}}
    \cup {Payload(FALSE, n, "object", r, "duration", d) :
              n \in BOOLEAN, r \in {"absent", "wash", "water"}, d \in Durations}

(* main(): REQUEST_TYPE_TO_ARGS.keys() *)
REQUEST_TYPES == {"water"}

(* json.loads(payload_raw): ValueError on text that is not JSON, else the  *)
(* decoded value.                                                          *)
json_loads(p) ==
    IF p.json = "bad"
    THEN [raises |-> "ValueError", kind |-> "none", request |-> "absent",
          args |-> "absent", duration |-> 0]
    ELSE [raises |-> "none", kind |-> p.json,
          request |-> IF p.json = "object" THEN p.request ELSE "absent",
          args |-> IF p.json = "object" THEN p.args ELSE "absent",
          duration |-> IF p.json = "object" /\ p.args = "duration"
                       THEN p.duration ELSE 0]

(* Mutant: the validation chain without the newline-sentinel check *)
Mut_Validate_NoNewlineCheck(p) ==
    IF p.empty THEN "L158"
    ELSE IF json_loads(p).raises = "ValueError" THEN "L134"
    ELSE IF json_loads(p).kind # "object" THEN "L158"
    ELSE IF json_loads(p).request \notin REQUEST_TYPES THEN "L140"
    ELSE IF json_loads(p).args \in {"absent", "null"} THEN "L146"
    ELSE "L150"

(* The four validation steps of main(), lines 125-147, in order.  The value *)
(* is where control goes: a send of {"success": false} (L127, L134, L140,  *)
(* L146), the outer except clause (L158) when the check itself raises, or  *)
(* the dispatch (L150).                                                    *)
Validate(p) ==
    IF p.empty THEN "L158"                      \* payload_raw[-1]: IndexError
    ELSE IF ~p.nl THEN "L127"
    ELSE IF json_loads(p).raises = "ValueError" THEN "L134"
    ELSE IF json_loads(p).kind # "object" THEN "L158"   \* .get: AttributeError
    ELSE IF json_loads(p).request \notin REQUEST_TYPES THEN "L140"
    ELSE IF json_loads(p).args \in {"absent", "null"} THEN "L146"
    ELSE "L150"

\* line 150: the keyword expansion of request_args binds water's one
\* parameter only when args is {"duration": d}; otherwise TypeError.
ArgsBind(p) == json_loads(p).args = "duration"

----------------------------------------------------------------------------
(* main_module/main.py and schedule.py: values and pure functions          *)

MaxDay == 1                \* days 0..MaxDay are modelled
MaxDumps == 2              \* schedules the operator saves while the scheduler runs

(* Python's None and a value that is not None *)
None == <<>>
Some(x) == <<x>>

MORNING == <<6, 9>>
AFTERNOON == <<11, 17>>
NIGHT == <<19, 22>>

(* schedule.py lines 9-15: a Schedule, compared by value *)
Schedule(m, a, n) == [morning |-> m, afternoon |-> a, night |-> n]

(* the schedules the operator saves: none, one or two minutes a window *)
Schedules ==
    {Schedule(0, 0, 0), Schedule(0, 1, 0), Schedule(0, 2, 0), Schedule(2, 0, 1)}

(* the times of day at which the clock is observed: before the first      *)
(* window, at the slots of Schedules, and between two slots of one hour    *)
TimePoints == {300, 360, 430, 450, 660, 840, 1140}

SetMin(S) == CHOOSE x \in S : \A y \in S : x <= y
SetMax(S) == CHOOSE x \in S : \A y \in S : x >= y

(* math.floor in the place of math.ceil *)
Mut_Ceil_Floor(a, b) == a \div b

(* math.ceil(a / b) for positive b *)
Ceil(a, b) == (a + b - 1) \div b

(* list(range(first, stop, step)) for a positive step *)
PyRange(first, stop, step) ==
    [i \in 1..Ceil(stop - first, step) |-> first + (i - 1) * step]

(* lines 60-73: the watering times of one window *)
WindowTimes(window, duration_minutes) ==
    IF duration_minutes = 0 THEN <<>>
    ELSE LET num_min_in_range == (window[2] - window[1]) * 60
             water_period_min == Ceil(num_min_in_range, duration_minutes)
             times == PyRange(window[1] * 60, window[2] * 60, water_period_min)
         IN  SubSeq(times, 1, Min(Len(times), duration_minutes))

(* the list is kept between calls, not created by each call *)
Mut_get_watering_regimen_SharedList(schedule) ==
    f_regimen
        \o WindowTimes(MORNING, schedule.morning)
        \o WindowTimes(AFTERNOON, schedule.afternoon)
        \o WindowTimes(NIGHT, schedule.night)

(* the windows taken in another order: night first *)
Mut_get_watering_regimen_NightFirst(schedule) ==
    WindowTimes(NIGHT, schedule.night)
        \o WindowTimes(MORNING, schedule.morning)
        \o WindowTimes(AFTERNOON, schedule.afternoon)

(* lines 53-75 *)
get_watering_regimen(schedule) ==
    WindowTimes(MORNING, schedule.morning)
        \o WindowTimes(AFTERNOON, schedule.afternoon)
        \o WindowTimes(NIGHT, schedule.night)

(* t // 60, t % 60 *)
HourMin(t) == <<t \div 60, t % 60>>

(* the hours compared, the minutes ignored *)
Mut_TupleGE_HourOnly(a, b) == a[1] >= b[1]

(* Python's >= on pairs *)
TupleGE(a, b) == a[1] > b[1] \/ (a[1] = b[1] /\ a[2] >= b[2])

(* lines 78-86: the first entry, scanning from the end, that is not after  *)
(* now; the last entry when there is none                                  *)
get_last_scheduled_watering_time(regimen, now_hour, now_min) ==
    LET past == {i \in DOMAIN regimen :
                    TupleGE(<<now_hour, now_min>>, HourMin(regimen[i]))}
    IN  IF past # {} THEN HourMin(regimen[SetMax(past)])
        ELSE HourMin(regimen[Len(regimen)])

(* lines 89-95 *)
get_last_watering_time == checkpoint

(* the slot occurrence <<day, minute>> a due slot computed at now stands   *)
(* for: today's, or yesterday's when the slot is still ahead today         *)
Occurrence(slot, at, d) ==
    <<IF TupleGE(at, slot) THEN d ELSE d - 1, slot[1] * 60 + slot[2]>>

SchedInit ==
    /\ spc = "off"
    /\ store = [decodes |-> TRUE, schedule |-> Schedule(0, 0, 0)]
    /\ checkpoint = None
    /\ clock = SetMin(TimePoints) /\ day = 0
    /\ new_schedule = Schedule(0, 0, 0)
    /\ cur_schedule = None /\ cur_regimen = None
    /\ now = <<0, 0>> /\ last_scheduled_time = <<0, 0>>
    /\ last_watered_at_time = None /\ succeeded = FALSE
    /\ now_day = 0 /\ booted = FALSE /\ load_failed = FALSE /\ dumps = 0 /\ reached = None /\ tick_fired = FALSE
    /\ last_fired = None /\ refired = {} /\ fired_life = {} /\ refired_life = {}

(* water() of main_module/main.py is not being called *)
ClientInit ==
    /\ cpc = "idle" /\ c_sock = "none" /\ c_wire = "nothing" /\ c_pending = FALSE
    /\ c_resp = "none" /\ c_ret = None /\ c_exc = "none" /\ c_fault = "none"

(* no call of a pure function has been made on its own *)
PureInit ==
    /\ f_schedule = None /\ f_regimen = <<>> /\ f_prev = None
    /\ f_args = <<<<>>, <<0, 0>>>> /\ f_slot = <<0, 0>>

----------------------------------------------------------------------------
(* water(duration), control_module/main.py lines 29-89                     *)

LoopPcs == {"L52", "L56", "L57"}
WaterPcs == {"L62", "L64", "L65", "L66", "L68", "L52", "L56", "L57", "L71", "L72",
             "L73", "L75", "L77", "L78", "L80", "L81", "L83", "L85", "L86", "L87"}

(* The part of the call that is running, for the history variable low_since *)
Phase ==
    IF pc \in LoopPcs /\ wait = "buffer" THEN "buffer"
    ELSE IF pc \in LoopPcs /\ wait = "pump" THEN "pump"
    ELSE IF pc \in {"idle", "done"} THEN "outside"
    ELSE "other"

(* Mutant: the pump-on wait is not wrapped in the inner try/finally, so an *)
(* exception raised in it does not pass through pump_pin.off()             *)
Mut_HandlerOf_NoInnerFinally(p, w, e) ==
    IF p \in {"L62", "L64", "L65", "L66", "L68", "L71", "L72", "L73", "L75"}
       \/ p \in LoopPcs
    THEN (IF e = "float" THEN "L80" ELSE "L83")
    ELSE IF p \in {"L77", "L78", "L80", "L81"}
    THEN "L83"
    ELSE "exit"

(* Where control goes when exception e ("float" or "fault") is raised by   *)
(* the statement at position p while wait w runs: the finally clause of    *)
(* the inner try (L77), the except clause of the outer try (L80), the      *)
(* finally clause of the outer try (L83), or out of water() ("exit").      *)
HandlerOf(p, w, e) ==
    IF p \in {"L71", "L72", "L73", "L75"} \/ (p \in LoopPcs /\ w = "pump")
    THEN "L77"
    ELSE IF p \in {"L62", "L64", "L65", "L66", "L68"} \/ (p \in LoopPcs /\ w = "buffer")
    THEN (IF e = "float" THEN "L80" ELSE "L83")
    ELSE IF p \in {"L77", "L78", "L80", "L81"}
    THEN "L83"
    ELSE "exit"

(* Mutant: the check tests the pin for 0 instead of 1 *)
Mut_CheckRaises_Inverted == ~float_low

(* line 46: FloatSwitchLowException.check() raises iff the pin reads 1 *)
CheckRaises == float_low

(* the sleep of line 57 without the cap of one check period *)
Mut_SleepArg_WholeWait(duration_ms) == duration_ms - elapsed

(* line 57: the argument of time.sleep_ms *)
SleepArg(duration_ms) == Min(FLOAT_SWITCH_CHECK_PERIOD_MS, duration_ms - elapsed)

(* the duration_ms argument of the running wait: lines 68 and 75 *)
DurationMs == IF wait = "buffer" THEN PUMP_BUFFER_SLEEP_MS ELSE duration * 1000

(* line 52: _elapsed_time = time.ticks_ms() - _start *)
ElapsedTime == ticks - start

(* Mutant: the wait gives up one poll period early *)
Mut_TimedOut_Early(e) ==
    e + FLOAT_SWITCH_CHECK_PERIOD_MS >=
        (IF wait = "buffer" THEN PUMP_BUFFER_SLEEP_MS ELSE duration * 1000)

(* line 53: the loop's exit test *)
TimedOut(e) == e >= DurationMs

(* the history variable low_on after a sleep of n milliseconds: the sleep *)
(* counts when the pump is on and the float switch low; two poll periods  *)
(* stand for anything longer                                              *)
LowOnAfter(n) ==
    IF pump = "on" /\ float_low
    THEN Min(low_on + n, 2 * FLOAT_SWITCH_CHECK_PERIOD_MS)
    ELSE low_on

(* time.ticks_ms() after n more milliseconds *)
TicksAfter(n) == (ticks + n) % TICKS_PERIOD

Init ==
    /\ valve = "closed" /\ pump = "off" /\ float_low \in BOOLEAN /\ ticks = 0
    /\ pc = "idle" /\ duration = 0 /\ valve_opened = FALSE /\ pump_engaged = FALSE
    /\ wait = "none" /\ start = 0 /\ elapsed = 0 /\ exc = "none" /\ retval = "none"
    /\ result = "none" /\ faults = 0
    /\ svc = "L119" /\ payload = NoPayload /\ conn = "none" /\ sent = <<>>
    /\ svc_exc = FALSE
    /\ cmds = <<>> /\ waited = 0 /\ pump_waited = -1 /\ since_off = -1
    /\ polls_low = {} /\ fault_at = {} /\ invoked = 0
    /\ low_since = IF float_low THEN "outside" ELSE "ok"
    /\ low_on = 0
    /\ backlog = 0
    /\ SchedInit
    /\ PureInit
    /\ ClientInit

(* line 62: the entry check *)
W_L62 ==
    /\ pc = "L62"
    /\ polls_low' = IF float_low THEN polls_low \cup {"entry"} ELSE polls_low
    /\ IF CheckRaises
       THEN /\ exc' = "float"
            /\ pc' = HandlerOf("L62", wait, "float")
       ELSE /\ pc' = "L64"
            /\ UNCHANGED exc
    /\ UNCHANGED extVars
    /\ UNCHANGED <<hwVars, duration, valve_opened, pump_engaged, wait, start, elapsed,
                   retval, result, faults, svcVars, cmds, waited, pump_waited,
                   since_off, fault_at, low_since, low_on, invoked>>

(* line 64: print("Opening valve...") *)
W_L64 ==
    /\ pc = "L64"
    /\ pc' = "L65"
    /\ UNCHANGED extVars
    /\ UNCHANGED <<hwVars, duration, valve_opened, pump_engaged, wait, start, elapsed,
                   exc, retval, result, faults, svcVars, histVars>>

(* line 65: valve_opened = True *)
W_L65 ==
    /\ pc = "L65"
    /\ valve_opened' = TRUE
    /\ pc' = "L66"
    /\ UNCHANGED extVars
    /\ UNCHANGED <<hwVars, duration, pump_engaged, wait, start, elapsed,
                   exc, retval, result, faults, svcVars, histVars>>

(* line 66: valve_pin.on() *)
W_L66 ==
    /\ pc = "L66"
    /\ valve' = "open"
    /\ cmds' = Append(cmds, "valve_on")
    /\ pc' = "L68"
    /\ UNCHANGED extVars
    /\ UNCHANGED <<pump, float_low, ticks, duration, valve_opened, pump_engaged, wait,
                   start, elapsed, exc, retval, result, faults, svcVars, waited,
                   pump_waited, since_off, polls_low, fault_at, low_since, low_on, invoked>>

(* lines 68 / 75 with line 50: enter sleep_until_timeout_or_float_switch_low *)
EnterWait(w) ==
    /\ wait' = w
    /\ start' = ticks
    /\ waited' = 0
    /\ pc' = "L52"

W_L68 ==
    /\ pc = "L68"
    /\ EnterWait("buffer")
    /\ UNCHANGED extVars
    /\ UNCHANGED <<hwVars, duration, valve_opened, pump_engaged, elapsed,
                   exc, retval, result, faults, svcVars, cmds, pump_waited,
                   since_off, polls_low, fault_at, low_since, low_on, invoked>>

(* lines 52-54: _elapsed_time = time.ticks_ms() - _start; break on timeout *)
W_L52 ==
    /\ pc = "L52"
    /\ elapsed' = ElapsedTime
    /\ IF TimedOut(ElapsedTime)
       THEN /\ pc' = IF wait = "buffer" THEN "L71" ELSE "L77"
            /\ wait' = "none"
            /\ pump_waited' = IF wait = "pump" THEN waited ELSE pump_waited
       ELSE /\ pc' = "L56"
            /\ UNCHANGED <<wait, pump_waited>>
    /\ UNCHANGED extVars
    /\ UNCHANGED <<hwVars, duration, valve_opened, pump_engaged, start,
                   exc, retval, result, faults, svcVars, cmds, waited,
                   since_off, polls_low, fault_at, low_since, low_on, invoked>>

(* line 56: FloatSwitchLowException.check() inside the wait *)
W_L56 ==
    /\ pc = "L56"
    /\ polls_low' = IF float_low THEN polls_low \cup {wait} ELSE polls_low
    /\ IF CheckRaises
       THEN /\ exc' = "float"
            /\ pc' = HandlerOf("L56", wait, "float")
            /\ wait' = "none"
       ELSE /\ pc' = "L57"
            /\ UNCHANGED <<exc, wait>>
    /\ UNCHANGED extVars
    /\ UNCHANGED <<hwVars, duration, valve_opened, pump_engaged, start, elapsed,
                   retval, result, faults, svcVars, cmds, waited, pump_waited,
                   since_off, fault_at, low_since, low_on, invoked>>

(* line 57: time.sleep_ms(min(FLOAT_SWITCH_CHECK_PERIOD_MS, duration_ms - _elapsed_time)) *)
W_L57 ==
    /\ pc = "L57"
    /\ ticks' = TicksAfter(SleepArg(DurationMs))
    /\ waited' = Sat(waited + SleepArg(DurationMs))
    /\ low_on' = LowOnAfter(SleepArg(DurationMs))
    /\ pc' = "L52"
    /\ UNCHANGED extVars
    /\ UNCHANGED <<valve, pump, float_low, duration, valve_opened, pump_engaged, wait,
                   start, elapsed, exc, retval, result, faults, svcVars, cmds,
                   pump_waited, since_off, polls_low, fault_at, low_since, invoked>>

(* line 71: print("Turning on pump...") *)
W_L71 ==
    /\ pc = "L71"
    /\ pc' = "L72"
    /\ UNCHANGED extVars
    /\ UNCHANGED <<hwVars, duration, valve_opened, pump_engaged, wait, start, elapsed,
                   exc, retval, result, faults, svcVars, histVars>>

(* line 72: pump_engaged = True *)
W_L72 ==
    /\ pc = "L72"
    /\ pump_engaged' = TRUE
    /\ pc' = "L73"
    /\ UNCHANGED extVars
    /\ UNCHANGED <<hwVars, duration, valve_opened, wait, start, elapsed,
                   exc, retval, result, faults, svcVars, histVars>>

(* line 73: pump_pin.on() *)
W_L73 ==
    /\ pc = "L73"
    /\ pump' = "on"
    /\ cmds' = Append(cmds, "pump_on")
    /\ low_on' = 0
    /\ pc' = "L75"
    /\ UNCHANGED extVars
    /\ UNCHANGED <<valve, float_low, ticks, duration, valve_opened, pump_engaged, wait,
                   start, elapsed, exc, retval, result, faults, svcVars, waited,
                   pump_waited, since_off, polls_low, fault_at, low_since, invoked>>

(* line 75: sleep_until_timeout_or_float_switch_low(duration * 1000) *)
W_L75 ==
    /\ pc = "L75"
    /\ EnterWait("pump")
    /\ UNCHANGED extVars
    /\ UNCHANGED <<hwVars, duration, valve_opened, pump_engaged, elapsed,
                   exc, retval, result, faults, svcVars, cmds, pump_waited,
                   since_off, polls_low, fault_at, low_since, low_on, invoked>>

(* line 77: print("Turning off pump."), first statement of the inner finally *)
W_L77 ==
    /\ pc = "L77"
    /\ pc' = "L78"
    /\ UNCHANGED extVars
    /\ UNCHANGED <<hwVars, duration, valve_opened, pump_engaged, wait, start, elapsed,
                   exc, retval, result, faults, svcVars, histVars>>

(* line 78: pump_pin.off(); then the exception in flight, if any, goes on: *)
(* FloatSwitchLowException to the except clause (L80), any other to the    *)
(* outer finally (L83); with none in flight the try block is left (L83).   *)
W_L78 ==
    /\ pc = "L78"
    /\ pump' = "off"
    /\ cmds' = Append(cmds, "pump_off")
    /\ since_off' = 0
    /\ low_on' = 0
    /\ pc' = IF exc = "float" THEN "L80" ELSE "L83"
    /\ UNCHANGED extVars
    /\ UNCHANGED <<valve, float_low, ticks, duration, valve_opened, pump_engaged, wait,
                   start, elapsed, exc, retval, result, faults, svcVars, waited,
                   pump_waited, polls_low, fault_at, low_since, invoked>>

(* line 80: print("Float switch low triggered, exiting.") *)
W_L80 ==
    /\ pc = "L80"
    /\ exc' = "none"
    /\ pc' = "L81"
    /\ UNCHANGED extVars
    /\ UNCHANGED <<hwVars, duration, valve_opened, pump_engaged, wait, start, elapsed,
                   retval, result, faults, svcVars, histVars>>

(* line 81: return False (the outer finally runs before the call returns) *)
W_L81 ==
    /\ pc = "L81"
    /\ retval' = "false"
    /\ pc' = "L83"
    /\ UNCHANGED extVars
    /\ UNCHANGED <<hwVars, duration, valve_opened, pump_engaged, wait, start, elapsed,
                   exc, result, faults, svcVars, histVars>>

(* Mutant: the valve is closed only when the pump was engaged *)
Mut_W_L83_CloseOnlyIfEngaged ==
    /\ pc = "L83"
    /\ pc' = IF valve_opened /\ pump_engaged THEN "L85" ELSE "exit"
    /\ UNCHANGED extVars
    /\ UNCHANGED <<hwVars, duration, valve_opened, pump_engaged, wait, start, elapsed,
                   exc, retval, result, faults, svcVars, histVars>>

(* lines 83-84: if valve_opened: if pump_engaged: *)
W_L83 ==
    /\ pc = "L83"
    /\ pc' = IF valve_opened THEN (IF pump_engaged THEN "L85" ELSE "L86") ELSE "exit"
    /\ UNCHANGED extVars
    /\ UNCHANGED <<hwVars, duration, valve_opened, pump_engaged, wait, start, elapsed,
                   exc, retval, result, faults, svcVars, histVars>>

(* line 85: time.sleep_ms(PUMP_BUFFER_SLEEP_MS) *)
W_L85 ==
    /\ pc = "L85"
    /\ ticks' = TicksAfter(PUMP_BUFFER_SLEEP_MS)
    /\ since_off' = IF since_off < 0 THEN since_off
                    ELSE Sat(since_off + PUMP_BUFFER_SLEEP_MS)
    /\ low_on' = LowOnAfter(PUMP_BUFFER_SLEEP_MS)
    /\ pc' = "L86"
    /\ UNCHANGED extVars
    /\ UNCHANGED <<valve, pump, float_low, duration, valve_opened, pump_engaged, wait,
                   start, elapsed, exc, retval, result, faults, svcVars, cmds, waited,
                   pump_waited, polls_low, fault_at, low_since, invoked>>

(* line 86: print("Closing valve.") *)
W_L86 ==
    /\ pc = "L86"
    /\ pc' = "L87"
    /\ UNCHANGED extVars
    /\ UNCHANGED <<hwVars, duration, valve_opened, pump_engaged, wait, start, elapsed,
                   exc, retval, result, faults, svcVars, histVars>>

(* line 87: valve_pin.off() *)
W_L87 ==
    /\ pc = "L87"
    /\ valve' = "closed"
    /\ cmds' = Append(cmds, "valve_off")
    /\ pc' = "exit"
    /\ UNCHANGED extVars
    /\ UNCHANGED <<pump, float_low, ticks, duration, valve_opened, pump_engaged, wait,
                   start, elapsed, exc, retval, result, faults, svcVars, waited,
                   pump_waited, since_off, polls_low, fault_at, low_since, low_on, invoked>>

(* The call's outcome once the outer finally is through: the exception in  *)
(* flight propagates, else the pending return False (line 81), else line   *)
(* 89: return True.                                                        *)
Outcome == IF exc = "fault" THEN "raised"
           ELSE IF retval = "false" THEN "false"
           ELSE "true"

W_Exit ==
    /\ pc = "exit"
    /\ result' = Outcome
    /\ pc' = "done"
    /\ UNCHANGED extVars
    /\ UNCHANGED <<hwVars, duration, valve_opened, pump_engaged, wait, start, elapsed,
                   exc, retval, faults, svcVars, histVars>>

Water ==
    \/ W_L62 \/ W_L64 \/ W_L65 \/ W_L66 \/ W_L68
    \/ W_L52 \/ W_L56 \/ W_L57
    \/ W_L71 \/ W_L72 \/ W_L73 \/ W_L75
    \/ W_L77 \/ W_L78 \/ W_L80 \/ W_L81
    \/ W_L83 \/ W_L85 \/ W_L86 \/ W_L87 \/ W_Exit

(* The float switch: the water level falls below or rises above the switch *)
(* at any moment.                                                          *)
FloatChange ==
    /\ float_low' = ~float_low
    /\ low_since' = IF float_low THEN "ok" ELSE Phase
    /\ low_on' = 0
    /\ UNCHANGED extVars
    /\ UNCHANGED <<valve, pump, ticks, waterVars, svcVars, cmds, waited, pump_waited,
                   since_off, polls_low, fault_at, invoked>>

(* An exception other than FloatSwitchLowException raised by the statement *)
(* at the current position of water(), which then has no effect.           *)
Fault ==
    /\ pc \in WaterPcs
    /\ faults < MaxFaults
    /\ faults' = faults + 1
    /\ fault_at' = fault_at \cup {pc}
    /\ exc' = "fault"
    /\ pc' = HandlerOf(pc, wait, "fault")
    /\ wait' = "none"
    /\ UNCHANGED extVars
    /\ UNCHANGED <<hwVars, duration, valve_opened, pump_engaged, start, elapsed,
                   retval, result, svcVars, cmds, waited, pump_waited, since_off,
                   polls_low, low_since, low_on, invoked>>

----------------------------------------------------------------------------
(* main(), control_module/main.py lines 91-164: the accept loop            *)

(* line 119: accept a connection.  The client has sent its payload and     *)
(* closed its write side; an arbitrary time has passed since the last      *)
(* connection.                                                             *)
Accept ==
    /\ svc = "L119"
    /\ conn' = "open"
    /\ \E p \in Payloads : payload' = p
    /\ \E t \in StartTicks : ticks' = t
    /\ sent' = <<>>
    /\ invoked' = 0
    /\ result' = "none"
    /\ svc' = "L123"
    /\ UNCHANGED <<valve, pump, float_low, pc, duration, valve_opened, pump_engaged,
                   wait, start, elapsed, exc, retval, faults, svc_exc, cmds, waited,
                   pump_waited, since_off, polls_low, fault_at, low_since, low_on>>

(* accept() returning as a client connects (the queue is not observed) *)
S_L119 ==
    /\ Accept
    /\ UNCHANGED extVars

(* S_L119_Queued of a server that accepts in a thread of its own, whatever *)
(* the handling of the last connection is doing                            *)
Mut_S_L119_Queued_Concurrent ==
    /\ backlog > 0
    /\ backlog' = backlog - 1
    /\ conn' = "open"
    /\ \E p \in Payloads : payload' = p
    /\ svc' = "L123"
    /\ sent' = <<>>
    /\ UNCHANGED <<hwVars, waterVars, svc_exc, histVars, schedVars, schedHist, pureVars, cliVars>>

(* accept() taking the oldest client of the listen queue *)
S_L119_Queued ==
    /\ backlog > 0
    /\ Accept
    /\ backlog' = backlog - 1
    /\ UNCHANGED <<schedVars, schedHist, pureVars, cliVars>>

(* line 103, listen(1): a client connects while the service is doing       *)
(* anything; the connection waits in the listen queue, which holds BACKLOG *)
ClientConnect ==
    /\ svc # "crashed"
    /\ backlog < BACKLOG
    /\ backlog' = backlog + 1
    /\ UNCHANGED <<hwVars, waterVars, svcVars, histVars, schedVars, schedHist, pureVars, cliVars>>

(* line 123: client_socket.recv raises (connection reset) *)
S_L123_RecvFails ==
    /\ svc = "L123"
    /\ svc' = "L158"
    /\ UNCHANGED extVars
    /\ UNCHANGED <<hwVars, waterVars, payload, conn, sent, svc_exc, histVars>>

(* lines 127, 134, 140, 146, 153, 155: client_socket.send raises; nothing  *)
(* in the inner try statements catches it there                            *)
S_SendFails ==
    /\ svc \in {"L127", "L134", "L140", "L146", "L153", "L155"}
    /\ svc' = "L158"
    /\ UNCHANGED extVars
    /\ UNCHANGED <<hwVars, waterVars, payload, conn, sent, svc_exc, histVars>>

(* lines 157-160: the send of the outer handler raises: except Exception: pass *)
S_L158_SendFails ==
    /\ svc = "L158"
    /\ svc' = "L162"
    /\ UNCHANGED extVars
    /\ UNCHANGED <<hwVars, waterVars, payload, conn, sent, svc_exc, histVars>>

SocketFault == S_L123_RecvFails \/ S_SendFails \/ S_L158_SendFails

(* lines 122-123: payload_raw = read_from_socket(client_socket) *)
S_L123 ==
    /\ svc = "L123"
    /\ svc' = "L125"
    /\ UNCHANGED extVars
    /\ UNCHANGED <<hwVars, waterVars, payload, conn, sent, svc_exc, histVars>>

(* lines 125-147: the validation chain *)
S_L125 ==
    /\ svc = "L125"
    /\ svc' = Validate(payload)
    /\ UNCHANGED extVars
    /\ UNCHANGED <<hwVars, waterVars, payload, conn, sent, svc_exc, histVars>>

(* lines 127-128, 134-135, 140-141, 146-147:                               *)
(* client_socket.send(json.dumps({"success": False})); continue            *)
S_SendInvalid ==
    /\ svc \in {"L127", "L134", "L140", "L146"}
    /\ sent' = Append(sent, FALSE)
    /\ svc' = "L164"
    /\ UNCHANGED extVars
    /\ UNCHANGED <<hwVars, waterVars, payload, conn, svc_exc, histVars>>

\* line 150: res = REQUEST_TYPE_TO_FUNC[request] called with request_args
\* expanded as keywords: water() is entered (lines 37-60), or TypeError is
\* raised when the arguments do not bind.
S_L150 ==
    /\ svc = "L150"
    /\ IF ArgsBind(payload)
       THEN /\ svc' = "L150w"
            /\ pc' = "L62"
            /\ duration' = json_loads(payload).duration
            /\ valve_opened' = FALSE
            /\ pump_engaged' = FALSE
            /\ wait' = "none" /\ start' = 0 /\ elapsed' = 0
            /\ exc' = "none" /\ retval' = "none" /\ result' = "none" /\ faults' = 0
            /\ invoked' = invoked + 1
            /\ cmds' = <<>> /\ waited' = 0 /\ pump_waited' = -1 /\ since_off' = -1
            /\ polls_low' = {} /\ fault_at' = {}
            /\ low_since' = IF float_low THEN "outside" ELSE "ok"
            /\ low_on' = 0
       ELSE /\ svc' = "L153"
            /\ UNCHANGED <<waterVars, histVars>>
    /\ UNCHANGED extVars
    /\ UNCHANGED <<hwVars, payload, conn, sent, svc_exc>>

(* S_L150_Return without the try of lines 149-151: an exception of the    *)
(* action reaches the outer handler of line 156                            *)
Mut_S_L150_Return_NoTry ==
    /\ svc = "L150w"
    /\ pc = "done"
    /\ pc' = "idle"
    /\ svc' = IF result = "raised" THEN "L158" ELSE "L155"
    /\ duration' = 0 /\ valve_opened' = FALSE /\ pump_engaged' = FALSE
    /\ wait' = "none" /\ start' = 0 /\ elapsed' = 0
    /\ exc' = "none" /\ retval' = "none" /\ faults' = 0
    /\ cmds' = <<>> /\ waited' = 0 /\ pump_waited' = -1 /\ since_off' = -1
    /\ polls_low' = {} /\ fault_at' = {}
    /\ low_since' = IF float_low THEN "outside" ELSE "ok"
    /\ low_on' = 0
    /\ UNCHANGED extVars
    /\ UNCHANGED <<hwVars, result, payload, conn, sent, svc_exc, invoked>>

(* line 150 completes: water() returned or raised; its frame is gone, the  *)
(* outcome stays in res (or in the exception caught at line 151)           *)
S_L150_Return ==
    /\ svc = "L150w"
    /\ pc = "done"
    /\ pc' = "idle"
    /\ svc' = IF result = "raised" THEN "L153" ELSE "L155"
    /\ duration' = 0 /\ valve_opened' = FALSE /\ pump_engaged' = FALSE
    /\ wait' = "none" /\ start' = 0 /\ elapsed' = 0
    /\ exc' = "none" /\ retval' = "none" /\ faults' = 0
    /\ cmds' = <<>> /\ waited' = 0 /\ pump_waited' = -1 /\ since_off' = -1
    /\ polls_low' = {} /\ fault_at' = {}
    /\ low_since' = IF float_low THEN "outside" ELSE "ok"
    /\ low_on' = 0
    /\ UNCHANGED extVars
    /\ UNCHANGED <<hwVars, result, payload, conn, sent, svc_exc, invoked>>

(* lines 151-153: except Exception: send {"success": False} *)
S_L153 ==
    /\ svc = "L153"
    /\ sent' = Append(sent, FALSE)
    /\ svc' = "L164"
    /\ UNCHANGED extVars
    /\ UNCHANGED <<hwVars, waterVars, payload, conn, svc_exc, histVars>>

(* S_L155 answering {"success": true} whatever water() returned *)
Mut_S_L155_ConstantTrue ==
    /\ svc = "L155"
    /\ sent' = Append(sent, TRUE)
    /\ svc' = "L164"
    /\ UNCHANGED extVars
    /\ UNCHANGED <<hwVars, waterVars, payload, conn, svc_exc, histVars>>

(* lines 154-155: else: send {"success": res} *)
S_L155 ==
    /\ svc = "L155"
    /\ sent' = Append(sent, result = "true")
    /\ svc' = "L164"
    /\ UNCHANGED extVars
    /\ UNCHANGED <<hwVars, waterVars, payload, conn, svc_exc, histVars>>

(* lines 156-160: except Exception: try to send {"success": False} *)
S_L158 ==
    /\ svc = "L158"
    /\ sent' = Append(sent, FALSE)
    /\ svc' = "L162"
    /\ UNCHANGED extVars
    /\ UNCHANGED <<hwVars, waterVars, payload, conn, svc_exc, histVars>>

(* S_L162 with pass in place of raise *)
Mut_S_L162_Swallow ==
    /\ svc = "L162"
    /\ svc_exc' = FALSE
    /\ svc' = "L164"
    /\ UNCHANGED extVars
    /\ UNCHANGED <<hwVars, waterVars, payload, conn, sent, histVars>>

(* line 162: raise *)
S_L162 ==
    /\ svc = "L162"
    /\ svc_exc' = TRUE
    /\ svc' = "L164"
    /\ UNCHANGED extVars
    /\ UNCHANGED <<hwVars, waterVars, payload, conn, sent, histVars>>

(* S_L164 with the close as a plain statement after the try, skipped when  *)
(* an exception propagates                                                 *)
Mut_S_L164_NoFinally ==
    /\ svc = "L164"
    /\ conn' = IF svc_exc THEN conn ELSE "closed"
    /\ svc' = IF svc_exc THEN "crashed" ELSE "L119"
    /\ UNCHANGED extVars
    /\ UNCHANGED <<hwVars, waterVars, payload, sent, svc_exc, histVars>>

(* lines 163-164: finally: client_socket.close(); then the next iteration, *)
(* or the exception leaves main()                                          *)
S_L164 ==
    /\ svc = "L164"
    /\ conn' = "closed"
    /\ svc' = IF svc_exc THEN "crashed" ELSE "L119"
    /\ UNCHANGED extVars
    /\ UNCHANGED <<hwVars, waterVars, payload, sent, svc_exc, histVars>>

(* lines 166-167: the operator starts main() again after it terminated;   *)
(* lines 101-103 make a new listening socket                              *)
S_Restart ==
    /\ svc = "crashed"
    /\ svc' = "L119"
    /\ svc_exc' = FALSE
    /\ conn' = "none"
    /\ backlog' = 0
    /\ UNCHANGED <<schedVars, schedHist, pureVars, cliVars>>
    /\ UNCHANGED <<hwVars, waterVars, payload, sent, histVars>>

ServiceRest ==
    \/ S_L123 \/ S_L125 \/ S_SendInvalid \/ S_L150 \/ S_L150_Return
    \/ S_L153 \/ S_L155 \/ S_L158 \/ S_L162 \/ S_L164 \/ S_Restart

Service == S_L119 \/ ServiceRest

Next == Water \/ Service \/ FloatChange

Spec == Init /\ [][Next]_vars

(* The same program with exceptions injected into water() *)
NextFault == Next \/ Fault

SpecFault == Init /\ [][NextFault]_vars

(* The program under the scheduling the device gives it: a statement of    *)
(* water() or of the accept loop that can run does run (time advances, a   *)
(* sleep ends, a connection arrives); the float switch is free.            *)
FairSpec == Spec /\ WF_vars(Water) /\ WF_vars(Service)

(* The service with its listen queue and with socket operations that fail *)
NextNet ==
    \/ Water \/ FloatChange
    \/ S_L119_Queued \/ ServiceRest
    \/ ClientConnect \/ SocketFault

SpecNet == Init /\ [][NextNet]_vars

----------------------------------------------------------------------------
(* main(), main_module/main.py lines 103-150: the scheduler loop           *)

ctlVars == <<hwVars, waterVars, svcVars, histVars, netVars, pureVars, cliVars>>

(* line 154: the process is started; lines 108-109 *)
M_Start ==
    /\ spc = "off"
    /\ spc' = "L113"
    /\ cur_schedule' = None /\ cur_regimen' = None
    /\ booted' = TRUE /\ load_failed' = FALSE
    /\ tick_fired' = FALSE
    /\ fired_life' = {} /\ refired_life' = {}
    /\ UNCHANGED <<store, checkpoint, clock, day, new_schedule, now,
                   last_scheduled_time, last_watered_at_time, succeeded,
                   now_day, dumps, reached, last_fired, refired>>
    /\ UNCHANGED ctlVars

(* M_L113 with pass in place of continue in the handler *)
Mut_M_L113_FailureFallsThrough ==
    /\ spc = "L113"
    /\ IF store.decodes
       THEN new_schedule' = store.schedule /\ spc' = "L117"
       ELSE new_schedule' = new_schedule /\ spc' = "L117"
    /\ load_failed' = ~store.decodes
    /\ UNCHANGED <<store, checkpoint, clock, day, cur_schedule, cur_regimen, now,
                   last_scheduled_time, last_watered_at_time, succeeded>>
    /\ UNCHANGED <<now_day, booted, dumps, reached, tick_fired, last_fired, refired,
                   fired_life, refired_life, ctlVars>>

(* lines 112-115: Schedule.load(); on JSONDecodeError continue *)
M_L113 ==
    /\ spc = "L113"
    /\ IF store.decodes
       THEN new_schedule' = store.schedule /\ spc' = "L117"
       ELSE UNCHANGED <<new_schedule, spc>>
    /\ load_failed' = ~store.decodes
    /\ UNCHANGED <<store, checkpoint, clock, day, cur_schedule, cur_regimen, now,
                   last_scheduled_time, last_watered_at_time, succeeded>>
    /\ UNCHANGED <<now_day, booted, dumps, reached, tick_fired, last_fired, refired,
                   fired_life, refired_life, ctlVars>>

(* M_L117 compiling the regimen for the first schedule only *)
Mut_M_L117_CompilesOnce ==
    /\ spc = "L117"
    /\ IF Some(new_schedule) # cur_schedule
       THEN /\ cur_schedule' = Some(new_schedule)
            /\ cur_regimen' = IF cur_regimen = None
                              THEN Some(get_watering_regimen(new_schedule))
                              ELSE cur_regimen
       ELSE UNCHANGED <<cur_schedule, cur_regimen>>
    /\ spc' = "L131"
    /\ UNCHANGED <<store, checkpoint, clock, day, new_schedule, now,
                   last_scheduled_time, last_watered_at_time, succeeded>>
    /\ UNCHANGED <<schedHist, ctlVars>>

(* lines 117-129 *)
M_L117 ==
    /\ spc = "L117"
    /\ IF Some(new_schedule) # cur_schedule
       THEN /\ cur_schedule' = Some(new_schedule)
            /\ cur_regimen' = Some(get_watering_regimen(new_schedule))
       ELSE UNCHANGED <<cur_schedule, cur_regimen>>
    /\ spc' = "L131"
    /\ UNCHANGED <<store, checkpoint, clock, day, new_schedule, now,
                   last_scheduled_time, last_watered_at_time, succeeded>>
    /\ UNCHANGED <<schedHist, ctlVars>>

(* M_L131 without the test of line 132: the checkpoint is consulted for   *)
(* an empty regimen too                                                   *)
Mut_M_L131_NoEmptyTest ==
    /\ spc = "L131"
    /\ now' = HourMin(clock)
    /\ now_day' = day
    /\ IF Len(cur_regimen[1]) # 0
       THEN last_scheduled_time' =
                get_last_scheduled_watering_time(cur_regimen[1], now'[1], now'[2])
       ELSE UNCHANGED last_scheduled_time
    /\ spc' = "L137"
    /\ UNCHANGED <<store, checkpoint, clock, day, new_schedule, cur_schedule,
                   cur_regimen, last_watered_at_time, succeeded>>
    /\ UNCHANGED <<booted, load_failed, dumps, reached, tick_fired, last_fired, refired, fired_life,
                   refired_life, ctlVars>>

(* lines 131-135: now; with a non-empty regimen, last_scheduled_time *)
M_L131 ==
    /\ spc = "L131"
    /\ now' = HourMin(clock)
    /\ now_day' = day
    /\ IF Len(cur_regimen[1]) # 0
       THEN /\ last_scheduled_time' =
                  get_last_scheduled_watering_time(cur_regimen[1], now'[1], now'[2])
            /\ spc' = "L137"
       ELSE /\ spc' = "L150"
            /\ UNCHANGED last_scheduled_time
    /\ UNCHANGED <<store, checkpoint, clock, day, new_schedule, cur_schedule,
                   cur_regimen, last_watered_at_time, succeeded>>
    /\ UNCHANGED <<booted, load_failed, dumps, reached, tick_fired, last_fired, refired, fired_life,
                   refired_life, ctlVars>>

(* line 137 *)
M_L137 ==
    /\ spc = "L137"
    /\ last_watered_at_time' = get_last_watering_time
    /\ spc' = "L139"
    /\ UNCHANGED <<store, checkpoint, clock, day, new_schedule, cur_schedule,
                   cur_regimen, now, last_scheduled_time, succeeded>>
    /\ UNCHANGED <<schedHist, ctlVars>>

(* M_L139 without the comparison: water on every iteration *)
Mut_M_L139_AlwaysWater ==
    /\ spc = "L139"
    /\ spc' = "L143"
    /\ UNCHANGED <<store, checkpoint, clock, day, new_schedule, cur_schedule,
                   cur_regimen, now, last_scheduled_time, last_watered_at_time,
                   succeeded>>
    /\ UNCHANGED <<schedHist, ctlVars>>

(* lines 139-142 *)
M_L139 ==
    /\ spc = "L139"
    /\ spc' = IF \/ last_watered_at_time = None
                 \/ Some(last_scheduled_time) # last_watered_at_time
              THEN "L143" ELSE "L150"
    /\ UNCHANGED <<store, checkpoint, clock, day, new_schedule, cur_schedule,
                   cur_regimen, now, last_scheduled_time, last_watered_at_time,
                   succeeded>>
    /\ UNCHANGED <<schedHist, ctlVars>>

(* the history of a call of water() for the due slot of this iteration *)
RecordAttempt ==
    LET occ == Occurrence(last_scheduled_time, now, now_day)
    IN  /\ tick_fired' = TRUE
        /\ last_fired' = Some(occ)
        /\ refired' = IF last_fired = Some(occ) /\ refired = {} THEN {occ} ELSE refired
        /\ fired_life' = {e \in fired_life : e[1] = now_day} \cup {<<now_day, occ>>}
        /\ refired_life' = IF <<now_day, occ>> \in fired_life /\ refired_life = {}
                           THEN {<<now_day, occ>>}
                           ELSE refired_life

(* line 143: succeeded = water(), lines 25-50: the request is made and     *)
(* answered true or false, or water() returns False                        *)
M_L143 ==
    /\ spc = "L143"
    /\ \E res \in BOOLEAN : succeeded' = res
    /\ RecordAttempt
    /\ spc' = "L144"
    /\ UNCHANGED <<store, checkpoint, clock, day, new_schedule, cur_schedule,
                   cur_regimen, now, last_scheduled_time, last_watered_at_time>>
    /\ UNCHANGED <<now_day, booted, load_failed, dumps, reached, ctlVars>>

(* what a process that ended leaves: its files; its locals are gone *)
ProcessEnds ==
    /\ spc' = "off"
    /\ new_schedule' = Schedule(0, 0, 0)
    /\ cur_schedule' = None /\ cur_regimen' = None
    /\ now' = <<0, 0>> /\ last_scheduled_time' = <<0, 0>>
    /\ last_watered_at_time' = None /\ succeeded' = FALSE
    /\ now_day' = 0 /\ tick_fired' = FALSE
    /\ UNCHANGED <<store, checkpoint, clock, day>>

(* line 143: water() raises: create_connection (line 28) is outside any    *)
(* try, recv, json.loads and the assert (lines 43-47) have only a finally; *)
(* nothing in main() catches it and the process ends                       *)
M_L143_Raises ==
    /\ spc = "L143"
    /\ LET occ == Occurrence(last_scheduled_time, now, now_day)
       IN  /\ last_fired' = Some(occ)
           /\ refired' = IF last_fired = Some(occ) /\ refired = {} THEN {occ} ELSE refired
    /\ ProcessEnds
    /\ UNCHANGED <<booted, load_failed, dumps, reached, fired_life, refired_life, ctlVars>>

(* M_L144 persisting the slot only when the attempt succeeded *)
Mut_M_L144_OnlyOnSuccess ==
    /\ spc = "L144"
    /\ checkpoint' = IF succeeded THEN Some(last_scheduled_time) ELSE checkpoint
    /\ spc' = "L150"
    /\ UNCHANGED <<store, clock, day, new_schedule, cur_schedule, cur_regimen, now,
                   last_scheduled_time, last_watered_at_time, succeeded>>
    /\ UNCHANGED <<schedHist, ctlVars>>

(* line 144: update_last_watering_time(last_scheduled_time), lines 98-100; *)
(* lines 145-148 log                                                       *)
M_L144 ==
    /\ spc = "L144"
    /\ checkpoint' = Some(last_scheduled_time)
    /\ spc' = "L150"
    /\ UNCHANGED <<store, clock, day, new_schedule, cur_schedule, cur_regimen, now,
                   last_scheduled_time, last_watered_at_time, succeeded>>
    /\ UNCHANGED <<schedHist, ctlVars>>

(* line 150: time.sleep(POLL_FREQ_S), and back to line 112.  The locals   *)
(* of lines 131-143 are assigned again before the next iteration reads    *)
(* them: their old values are dropped here.                                *)
M_L150 ==
    /\ spc = "L150"
    /\ spc' = "L113"
    /\ now' = <<0, 0>> /\ last_scheduled_time' = <<0, 0>>
    /\ last_watered_at_time' = None /\ succeeded' = FALSE
    /\ now_day' = 0 /\ tick_fired' = FALSE
    /\ UNCHANGED <<store, checkpoint, clock, day, new_schedule, cur_schedule,
                   cur_regimen>>
    /\ UNCHANGED <<booted, load_failed, dumps, reached, last_fired, refired, fired_life, refired_life,
                   ctlVars>>

(* the process is killed (power loss, reboot) at any statement *)
Crash ==
    /\ spc # "off"
    /\ ProcessEnds
    /\ UNCHANGED <<booted, load_failed, dumps, reached, last_fired, refired, fired_life, refired_life,
                   ctlVars>>

(* the clock moves on to the next observed time of day *)
Advance ==
    IF \E t \in TimePoints : t > clock
    THEN clock' = SetMin({t \in TimePoints : t > clock}) /\ day' = day
    ELSE day < MaxDay /\ clock' = SetMin(TimePoints) /\ day' = day + 1

(* time passes, whatever the process is doing *)
ClockAdvance ==
    /\ Advance
    /\ UNCHANGED <<spc, store, checkpoint, new_schedule, cur_schedule, cur_regimen,
                   now, last_scheduled_time, last_watered_at_time, succeeded>>
    /\ UNCHANGED <<schedHist, ctlVars>>

(* time passes only before the process is started and in its sleep of     *)
(* line 150, and there by one observed time of day per iteration: every    *)
(* observed time of day gets an iteration                                  *)
ClockAdvanceInSleep ==
    /\ spc \in {"off", "L150"}
    /\ spc = "L150" => (now = HourMin(clock) /\ now_day = day)
    /\ Advance
    /\ reached' = IF /\ spc = "L150"
                     /\ \E i \in DOMAIN cur_regimen[1] : cur_regimen[1][i] = clock'
                  THEN Some(<<day', clock'>>)
                  ELSE reached
    /\ UNCHANGED <<spc, store, checkpoint, new_schedule, cur_schedule, cur_regimen,
                   now, last_scheduled_time, last_watered_at_time, succeeded>>
    /\ UNCHANGED <<now_day, booted, load_failed, dumps, tick_fired, last_fired, refired,
                   fired_life, refired_life, ctlVars>>

(* app.py line 39, schedule.py lines 22-24: the operator saves a schedule; *)
(* open(..., "w") empties the file, write fills it                         *)
Dump ==
    /\ dumps < MaxDumps
    /\ dumps' = dumps + 1
    /\ \E s \in Schedules : store' = [decodes |-> TRUE, schedule |-> s]
    /\ UNCHANGED <<spc, checkpoint, clock, day, new_schedule, cur_schedule,
                   cur_regimen, now, last_scheduled_time, last_watered_at_time,
                   succeeded>>
    /\ UNCHANGED <<now_day, booted, load_failed, reached, tick_fired, last_fired, refired,
                   fired_life, refired_life, ctlVars>>

DumpTruncates ==
    /\ store.decodes
    /\ store' = [store EXCEPT !.decodes = FALSE]
    /\ UNCHANGED <<spc, checkpoint, clock, day, new_schedule, cur_schedule,
                   cur_regimen, now, last_scheduled_time, last_watered_at_time,
                   succeeded>>
    /\ UNCHANGED <<schedHist, ctlVars>>

(* the operator saves the schedule before the scheduler is first started *)
DumpBeforeStart ==
    /\ ~booted
    /\ \E s \in Schedules : store' = [decodes |-> TRUE, schedule |-> s]
    /\ UNCHANGED <<spc, checkpoint, clock, day, new_schedule, cur_schedule,
                   cur_regimen, now, last_scheduled_time, last_watered_at_time,
                   succeeded>>
    /\ UNCHANGED <<schedHist, ctlVars>>

Tick ==
    \/ M_Start \/ M_L113 \/ M_L117 \/ M_L131 \/ M_L137 \/ M_L139
    \/ M_L143 \/ M_L144 \/ M_L150

(* One run of the scheduler process, with the clock free and the operator *)
(* saving schedules at any time                                            *)
NextSched == Tick \/ ClockAdvance \/ Dump \/ DumpTruncates

SpecSched == Init /\ [][NextSched]_vars

(* The scheduler with one schedule, saved before the first start, crashing *)
(* and restarting                                                          *)
NextSchedCrash ==
    \/ Tick \/ M_L143_Raises \/ Crash
    \/ ClockAdvance \/ DumpBeforeStart

SpecSchedCrash == Init /\ [][NextSchedCrash]_vars

(* The scheduler with one schedule, never ending, iterating at every       *)
(* observed time of day                                                    *)
NextSchedTick == Tick \/ ClockAdvanceInSleep \/ DumpBeforeStart

SpecSchedTick == Init /\ [][NextSchedTick]_vars

----------------------------------------------------------------------------
(* water() of main_module/main.py, lines 25-50, statement by statement     *)

(* what conn.recv(1024) can hand back: a response of the service, a        *)
(* response whose success field is not a boolean, or nothing (the peer     *)
(* closed without answering)                                               *)
Responses == {"true", "false", "nonbool", "empty"}

(* ParseResponse with the assert of line 47 compiled away *)
Mut_ParseResponse_NoAssert(raw) ==
    IF raw = "empty" THEN [raises |-> "JSONDecodeError", value |-> "none"]
    ELSE [raises |-> "none",
          value |-> IF raw = "true" THEN "True"
                    ELSE IF raw = "false" THEN "False" ELSE "nonbool"]

(* lines 44-48: json.loads, response["success"], the assert, return res *)
ParseResponse(raw) ==
    IF raw = "empty" THEN [raises |-> "JSONDecodeError", value |-> "none"]
    ELSE IF raw = "nonbool" THEN [raises |-> "AssertionError", value |-> "none"]
    ELSE [raises |-> "none", value |-> IF raw = "true" THEN "True" ELSE "False"]

(* line 25: the call begins *)
Enter ==
    /\ cpc = "idle"
    /\ cpc' = "L28"
    /\ c_sock' = "none" /\ c_wire' = "nothing" /\ c_pending' = FALSE
    /\ c_resp' = "none" /\ c_ret' = None /\ c_exc' = "none" /\ c_fault' = "none"

(* lines 28-30: socket.create_connection, outside every try: a refused    *)
(* connection raises out of water()                                       *)
Connect(refused) ==
    /\ cpc = "L28"
    /\ IF refused
       THEN /\ cpc' = "raised"
            /\ c_exc' = "ConnectionRefusedError"
            /\ c_fault' = "refused"
            /\ UNCHANGED c_sock
       ELSE /\ cpc' = "L31"
            /\ c_sock' = "open"
            /\ UNCHANGED <<c_exc, c_fault>>
    /\ UNCHANGED <<c_wire, c_pending, c_resp, c_ret>>

(* lines 31-37: the two sendall calls; an OSError (connection reset) is   *)
(* caught and return False waits for the finally of line 38               *)
Send(reset) ==
    /\ cpc = "L31"
    /\ cpc' = "L39"
    /\ IF reset
       THEN /\ c_pending' = TRUE
            /\ c_fault' = "reset"
            /\ c_sock' = "reset"
            /\ UNCHANGED c_wire
       ELSE /\ c_wire' = "request"
            /\ UNCHANGED <<c_pending, c_fault, c_sock>>
    /\ UNCHANGED <<c_resp, c_ret, c_exc>>

(* lines 38-39: finally: conn.shutdown(SHUT_WR).  On a socket that was    *)
(* reset the call fails (ENOTCONN) and its OSError replaces the pending   *)
(* return; otherwise the write side is closed and the pending return, if  *)
(* any, completes                                                         *)
Shutdown(raises) ==
    /\ cpc = "L39"
    /\ raises => c_sock = "reset"
    /\ IF raises
       THEN /\ cpc' = "raised"
            /\ c_exc' = "OSError"
            /\ UNCHANGED <<c_sock, c_ret>>
       ELSE /\ c_sock' = IF c_sock = "reset" THEN "reset" ELSE "shut_wr"
            /\ cpc' = IF c_pending THEN "ret" ELSE "L43"
            /\ c_ret' = IF c_pending THEN Some("False") ELSE c_ret
            /\ UNCHANGED c_exc
    /\ c_pending' = FALSE
    /\ UNCHANGED <<c_wire, c_resp, c_fault>>

(* line 43: response_raw = conn.recv(1024) *)
Recv(raw) ==
    /\ cpc = "L43"
    /\ c_resp' = raw
    /\ cpc' = "L44"
    /\ UNCHANGED <<c_sock, c_wire, c_pending, c_ret, c_exc, c_fault>>

(* lines 44-48 *)
Parse ==
    /\ cpc = "L44"
    /\ LET r == ParseResponse(c_resp)
       IN  /\ c_exc' = r.raises
           /\ c_ret' = IF r.raises = "none" THEN Some(r.value) ELSE None
    /\ cpc' = "L50"
    /\ UNCHANGED <<c_sock, c_wire, c_pending, c_resp, c_fault>>

(* lines 49-50: finally: conn.close(); then the return or the exception *)
Close ==
    /\ cpc = "L50"
    /\ c_sock' = "closed"
    /\ cpc' = IF c_exc # "none" THEN "raised" ELSE "ret"
    /\ UNCHANGED <<c_wire, c_pending, c_resp, c_ret, c_exc, c_fault>>

cliRest == <<hwVars, waterVars, svcVars, histVars, netVars, pureVars>>

(* line 143 of main(): water() is called *)
M_L143_Calls ==
    /\ spc = "L143"
    /\ Enter
    /\ UNCHANGED <<schedVars, schedHist, cliRest>>

(* the call running against a peer that refuses, resets and answers as it *)
(* likes                                                                  *)
C_L28 == (\E refused \in BOOLEAN : Connect(refused)) /\ UNCHANGED <<schedVars, schedHist, cliRest>>
C_L31 == (\E reset \in BOOLEAN : Send(reset)) /\ UNCHANGED <<schedVars, schedHist, cliRest>>
C_L39 == (\E raises \in BOOLEAN : Shutdown(raises)) /\ UNCHANGED <<schedVars, schedHist, cliRest>>
C_L43 == (\E raw \in Responses : Recv(raw)) /\ UNCHANGED <<schedVars, schedHist, cliRest>>
C_L44 == Parse /\ UNCHANGED <<schedVars, schedHist, cliRest>>
C_L50 == Close /\ UNCHANGED <<schedVars, schedHist, cliRest>>

(* line 143: succeeded = the value water() returned *)
M_L143_Returns ==
    /\ spc = "L143"
    /\ cpc = "ret"
    /\ cpc' = "idle"
    /\ succeeded' = (c_ret = Some("True"))
    /\ RecordAttempt
    /\ spc' = "L144"
    /\ UNCHANGED <<store, checkpoint, clock, day, new_schedule, cur_schedule,
                   cur_regimen, now, last_scheduled_time, last_watered_at_time>>
    /\ UNCHANGED <<now_day, booted, load_failed, dumps, reached>>
    /\ UNCHANGED <<c_sock, c_wire, c_pending, c_resp, c_ret, c_exc, c_fault, cliRest>>

(* line 143: the exception of water() leaves main(), which has no try     *)
(* around the call: the process ends                                      *)
M_L143_Raised ==
    /\ spc = "L143"
    /\ cpc = "raised"
    /\ cpc' = "idle"
    /\ LET occ == Occurrence(last_scheduled_time, now, now_day)
       IN  /\ last_fired' = Some(occ)
           /\ refired' = IF last_fired = Some(occ) /\ refired = {} THEN {occ} ELSE refired
    /\ ProcessEnds
    /\ UNCHANGED <<booted, load_failed, dumps, reached, fired_life, refired_life>>
    /\ UNCHANGED <<c_sock, c_wire, c_pending, c_resp, c_ret, c_exc, c_fault, cliRest>>

Client == C_L28 \/ C_L31 \/ C_L39 \/ C_L43 \/ C_L44 \/ C_L50

(* the iteration of main() with the call of line 143 in its steps *)
TickClient ==
    \/ M_Start \/ M_L113 \/ M_L117 \/ M_L131 \/ M_L137 \/ M_L139
    \/ M_L143_Calls \/ M_L143_Returns \/ M_L143_Raised \/ M_L144 \/ M_L150

(* The scheduler with one schedule, restarted when it ends, its client    *)
(* talking to an arbitrary peer                                           *)
NextClient == TickClient \/ Client \/ ClockAdvanceInSleep \/ DumpBeforeStart

SpecClient == Init /\ [][NextClient]_vars

----------------------------------------------------------------------------
(* water() of main_module/main.py talking to main() of control_module      *)

(* line 33: the request of the client, {"request": "water", "args":        *)
(* {"duration": 60}} and a newline; the 60 seconds are capped at the       *)
(* largest duration of the model                                           *)
ClientRequest == Payload(FALSE, TRUE, "object", "water", "duration", MaxDuration)

(* what read_from_socket collects of what the client wrote *)
WirePayload(wire) == IF wire = "request" THEN ClientRequest ELSE NoPayload

(* main_module line 143: a call begins; the call before it is over on     *)
(* both sides                                                             *)
X_Calls ==
    /\ svc \in {"L119", "crashed"}
    /\ backlog = 0
    /\ Enter
    /\ UNCHANGED <<schedVars, schedHist, cliRest>>

(* main_module lines 28-30: refused when no service listens, else the     *)
(* connection waits in the listen queue                                   *)
X_L28 ==
    /\ Connect(svc = "crashed")
    /\ backlog' = IF svc = "crashed" THEN backlog ELSE backlog + 1
    /\ UNCHANGED <<schedVars, schedHist, hwVars, waterVars, svcVars, histVars, pureVars>>

(* control_module line 119: accept() takes the client's connection *)
X_L119 ==
    /\ S_L119_Queued
    /\ payload' = NoPayload

(* control_module lines 105-114, 122-123: read_from_socket reads until    *)
(* recv returns b"", which it does once the client has closed its write   *)
(* side; on a connection that was reset recv raises                       *)
X_L123 ==
    /\ svc = "L123"
    /\ c_sock \in {"shut_wr", "closed", "reset"}
    /\ IF c_sock = "reset"
       THEN svc' = "L158" /\ UNCHANGED payload
       ELSE svc' = "L125" /\ payload' = WirePayload(c_wire)
    /\ UNCHANGED extVars
    /\ UNCHANGED <<hwVars, waterVars, conn, sent, svc_exc, histVars>>

(* main_module line 43: recv returns what the service sent on this        *)
(* connection, or b"" when the service closed it without sending          *)
X_L43 ==
    /\ backlog = 0
    /\ \/ sent # <<>> /\ Recv(IF sent[1] THEN "true" ELSE "false")
       \/ sent = <<>> /\ conn = "closed" /\ Recv("empty")
    /\ UNCHANGED <<schedVars, schedHist, cliRest>>

(* the call is over: its value or its exception is the caller's *)
X_Leaves ==
    /\ cpc \in {"ret", "raised"}
    /\ cpc' = "idle"
    /\ UNCHANGED <<c_sock, c_wire, c_pending, c_resp, c_ret, c_exc, c_fault>>
    /\ UNCHANGED <<schedVars, schedHist, cliRest>>

ClientX == X_Calls \/ X_L28 \/ C_L31 \/ C_L39 \/ X_L43 \/ C_L44 \/ C_L50 \/ X_Leaves

ServiceX ==
    \/ X_L119 \/ X_L123 \/ S_L125 \/ S_L150 \/ S_L150_Return \/ S_L155
    \/ S_L158 \/ S_L162 \/ S_L164 \/ S_Restart

(* The exchange with the float switch staying at the level it starts      *)
(* with, low or high                                                      *)
NextExchange == ClientX \/ ServiceX \/ Water

SpecExchange == Init /\ [][NextExchange]_vars

(* The exchange under the scheduling the two devices give it: a statement *)
(* of either program that can run does run; the network is free           *)
FairExchange ==
    SpecExchange /\ WF_vars(ClientX) /\ WF_vars(ServiceX) /\ WF_vars(Water)

----------------------------------------------------------------------------
(* The pure functions of main_module/main.py called on their own           *)

(* minutes a window is given: none, one, a divisor of the window, a        *)
(* non-divisor, and one whose period leaves the window before the count    *)
PureSchedules ==
    {Schedule(m, a, n) : m \in {0, 3}, a \in {0, 5}, n \in {0, 1, 16}}

(* the regimens line 127 can hold, and the sorted list <<360, 720>> *)
PureRegimens ==
    ({get_watering_regimen(s) : s \in PureSchedules} \ {<<>>}) \cup {<<360, 720>>}

(* times of day: midnight, before the first slot, on a slot, inside the   *)
(* hour of a slot before and after it, after the last slot                *)
PureNows ==
    {<<0, 0>>, <<5, 0>>, <<6, 0>>, <<7, 0>>, <<12, 5>>, <<12, 12>>, <<13, 20>>,
     <<19, 0>>, <<19, 11>>, <<19, 12>>, <<23, 59>>}

(* lines 53-75: one call of get_watering_regimen *)
CallRegimen ==
    /\ \E schedule \in PureSchedules :
          /\ f_prev' = IF f_schedule = None THEN None
                       ELSE Some(<<f_schedule[1], f_regimen>>)
          /\ f_schedule' = Some(schedule)
          /\ f_regimen' = get_watering_regimen(schedule)
    /\ UNCHANGED <<f_args, f_slot>>
    /\ UNCHANGED <<hwVars, waterVars, svcVars, histVars, netVars, schedVars, schedHist,
                   cliVars>>

(* lines 78-86: one call of get_last_scheduled_watering_time; line 132     *)
(* keeps an empty regimen away from it                                     *)
CallLastScheduled ==
    /\ \E regimen \in PureRegimens, at \in PureNows :
          /\ f_args' = <<regimen, at>>
          /\ f_slot' = get_last_scheduled_watering_time(regimen, at[1], at[2])
    /\ UNCHANGED <<f_schedule, f_regimen, f_prev>>
    /\ UNCHANGED <<hwVars, waterVars, svcVars, histVars, netVars, schedVars, schedHist,
                   cliVars>>

NextPure == CallRegimen \/ CallLastScheduled

SpecPure == Init /\ [][NextPure]_vars

----------------------------------------------------------------------------
(* Properties                                                              *)

Range(s) == {s[i] : i \in DOMAIN s}

(* position of the first x in s; 0 when x is not in s *)
Pos(s, x) == IF x \in Range(s) THEN CHOOSE i \in DOMAIN s : s[i] = x /\ \A k \in 1..(i-1) : s[k] # x
             ELSE 0

Count(s, x) == Cardinality({i \in DOMAIN s : s[i] = x})

InCall == pc \notin {"idle"}

(* C1: in every state of every execution of water(), with exceptions       *)
(* injected at any statement, the pump is not on while the valve is closed *)
C1_PumpOnOnlyWhileValveOpen == ~(pump = "on" /\ valve = "closed")

(* C2: on every exit path, faults included, the valve goes from open to    *)
(* closed only when the pump is off                                        *)
C2_PumpOffBeforeValveClosed ==
    [][(valve = "open" /\ valve' = "closed") => pump = "off"]_vars

(* C3: when an exception was injected after pump_pin.on(), a valve_pin.off() *)
(* of that call is preceded by a pump_pin.off()                            *)
C3_FaultAfterPumpOnKeepsOrder ==
    (fault_at # {} /\ "pump_on" \in Range(cmds) /\ "valve_off" \in Range(cmds))
        => /\ "pump_off" \in Range(cmds)
           /\ Pos(cmds, "pump_off") < Pos(cmds, "valve_off")

(* C4: when the pump was switched on in a call, the valve is closed in     *)
(* that call only after pump_pin.off() and PUMP_BUFFER_SLEEP_MS more       *)
C4_ValveClosedAfterDrain ==
    ("pump_on" \in Range(cmds) /\ "valve_off" \in Range(cmds))
        => since_off >= PUMP_BUFFER_SLEEP_MS

(* C5: when the entry check (line 62) reads the float switch low, no pin   *)
(* command (on or off, valve or pump) is issued in that call and the call  *)
(* returns False                                                           *)
C5_EntryLowTouchesNothing ==
    "entry" \in polls_low
        => /\ cmds = <<>>
           /\ ~valve_opened /\ ~pump_engaged
           /\ (pc = "done" => result = "false")

C5_Witness == pc = "done" /\ "entry" \in polls_low /\ result = "false"

C7_LowPollInBufferWaitAborts ==
    "buffer" \in polls_low
        => /\ wait = "none"
           /\ pc \in {"L80", "L81", "L83", "L86", "L87", "exit", "done"}
           /\ ~pump_engaged /\ "pump_on" \notin Range(cmds) /\ pump = "off"
           /\ (pc = "done" => result = "false" /\ valve = "closed")

C7_Witness == pc = "done" /\ "buffer" \in polls_low /\ valve = "closed"

(* C8: water() returns True only after a pump-on wait of at least          *)
(* duration * 1000 ms in which no poll read low, and returns False         *)
(* whenever a poll (entry, buffer wait, pump-on wait) read low             *)
C8_ReturnValue ==
    pc = "done"
        => /\ (result = "true" => pump_waited >= duration * 1000 /\ polls_low = {})
           /\ (polls_low # {} => result = "false")

C8_Witness == pc = "done" /\ result = "true" /\ duration = MaxDuration

(* C9: every call of water() terminates, with the pump off and the valve   *)
(* closed, whatever the float switch does                                  *)
C9_WaterTerminates ==
    (pc = "L62") ~> (pc = "done" /\ pump = "off" /\ valve = "closed")

(* The payloads the service is to reject: empty, not newline-terminated,   *)
(* not JSON, not a JSON object, unknown request name, missing args         *)
InvalidPayload(p) ==
    \/ p.empty
    \/ ~p.nl
    \/ p.json # "object"
    \/ p.request # "water"
    \/ p.args \in {"absent", "null"}

(* C10: a connection whose payload fails validation is sent exactly        *)
(* {"success": false}, no action is invoked for it, and while it is        *)
(* handled the valve and the pump are not switched                         *)
C10_InvalidPayloadRejected ==
    /\ [](InvalidPayload(payload) /\ conn # "none"
            => /\ invoked = 0 /\ pc = "idle"
               /\ \A i \in DOMAIN sent : sent[i] = FALSE
               /\ (conn = "closed" => sent = <<FALSE>>))
    /\ [][InvalidPayload(payload') /\ conn' # "none"
            => valve' = valve /\ pump' = pump]_vars

C10_Witness ==
    /\ conn = "closed" /\ sent = <<FALSE>> /\ InvalidPayload(payload)
    /\ ~payload.empty /\ payload.nl /\ payload.json = "object"
    /\ payload.request = "wash" /\ payload.args = "duration"

(* C11 as stated: while and after a connection whose payload fails         *)
(* validation is handled, no exception leaves the accept loop and the      *)
(* service has not terminated                                              *)
C11_InvalidPayloadKeepsServing ==
    (InvalidPayload(payload) /\ conn # "none") => (~svc_exc /\ svc # "crashed")

(* the dispatched action of the current connection raised: the arguments   *)
(* did not bind, or an exception left water()                              *)
ActionRaised ==
    /\ conn # "none" /\ ~InvalidPayload(payload)
    /\ (~ArgsBind(payload) \/ result = "raised")

(* C12: when the action of a validated request raises, the exception does  *)
(* not reach the outer handler, the service does not terminate, the only   *)
(* response is {"success": false}, and after the connection is closed the  *)
(* service is back at accept                                               *)
C12_ActionFaultAnswered ==
    ActionRaised
        => /\ ~svc_exc /\ svc \notin {"L158", "L162", "crashed"}
           /\ \A i \in DOMAIN sent : sent[i] = FALSE
           /\ (conn = "closed" => sent = <<FALSE>> /\ svc = "L119")

C12_Witness ==
    /\ conn = "closed" /\ svc = "L119" /\ sent = <<FALSE>>
    /\ result = "raised" /\ invoked = 1

(* C15: for a well-formed water request, the response's success field is   *)
(* the value water() returned; water() returns True exactly when no poll   *)
(* of the float switch read low                                            *)
C15_ResponseIsReturnValue ==
    /\ (conn = "closed" /\ ~InvalidPayload(payload) /\ ArgsBind(payload))
            => /\ result \in {"true", "false"}
               /\ sent = <<result = "true">>
    /\ (pc = "done" /\ result # "raised") => (result = "true" <=> polls_low = {})

C15_Witness ==
    /\ conn = "closed" /\ ~InvalidPayload(payload) /\ ArgsBind(payload)
    /\ result = "true" /\ sent = <<TRUE>> /\ invoked = 1

(* C13: whenever the service is back at accept or has terminated, the      *)
(* connection it accepted last is closed: validation failure, action       *)
(* success, action fault and propagating exception all pass the close      *)
C13_ConnectionAlwaysClosed ==
    /\ [](svc \in {"L119", "crashed"} => conn # "open")
    /\ [][(conn = "open" /\ svc' \in {"L119", "crashed"}) => conn' = "closed"]_vars

C13_Witness ==
    /\ svc = "crashed" /\ conn = "closed"
    /\ InvalidPayload(payload) /\ payload.nl /\ sent = <<>>

(* C14: a watering cycle runs only inside the handling of the one open     *)
(* connection and is entered only when none is running; a client waiting   *)
(* in the listen queue (at most BACKLOG of them) is accepted only when no  *)
(* connection is open and no cycle is running                              *)
C14_OneRequestAtATime ==
    /\ [](/\ backlog \in 0..BACKLOG
          /\ invoked \in {0, 1}
          /\ (pc # "idle" => conn = "open" /\ svc = "L150w" /\ invoked = 1))
    /\ [][/\ (backlog' < backlog /\ svc # "crashed")
                => conn # "open" /\ pc = "idle" /\ pc' = "idle"
          /\ (pc' = "L62" /\ pc # "L62") => (pc = "idle" /\ invoked = 0)]_vars

C14_Witness == backlog = 1 /\ conn = "open" /\ pc = "L75" /\ pump = "on"

(* C16: once the outer handler (line 156) has caught an exception of the   *)
(* request handling, the only way on is: try to answer, re-raise, close    *)
(* the connection, leave main(); the service does not return to accept,    *)
(* and it has terminated only with its connection closed                   *)
C16_OuterExceptionTerminates ==
    /\ [](svc = "crashed" => conn = "closed")
    /\ [][/\ svc = "L158" => svc' \in {"L158", "L162"}
          /\ svc = "L162" => (svc' = "L162" \/ (svc' = "L164" /\ svc_exc'))
          /\ (svc = "L164" /\ svc_exc)
                => (svc' = "L164" \/ (svc' = "crashed" /\ conn' = "closed"))
          /\ (svc_exc /\ svc # "crashed") => svc_exc']_vars

C16_Witness ==
    /\ svc = "crashed" /\ conn = "closed"
    /\ invoked = 1 /\ result = "true" /\ sent = <<>>

(* C17 as stated: with the scheduler process ending at any statement and   *)
(* being started again, no slot occurrence gets two calls of water()       *)
C17_AtMostOncePerSlotOccurrence == refired = {}

(* C18 as stated: within one run of the scheduler process and one day, no  *)
(* due slot gets two calls of water(), whatever the clock and the operator *)
(* saving schedules do                                                     *)
C18_AtMostOncePerDueSlotInLifetime == refired_life = {}

(* C19 as stated: once the clock has reached a slot of the regimen while   *)
(* the loop was running, the iteration made at that time of day has called *)
(* water() for that slot occurrence by the time it goes to sleep           *)
C19_ReachedSlotAttempted ==
    (spc = "L150" /\ reached # None /\ now = HourMin(clock) /\ now_day = day)
        => last_fired = reached

(* C20: in an iteration that read a checkpoint equal to the due slot it    *)
(* computed, water() is not called and the checkpoint file keeps its value *)
C20_NoAttemptWhenCheckpointIsDue ==
    (/\ spc \in {"L139", "L143", "L144", "L150"}
     /\ last_watered_at_time = Some(last_scheduled_time))
        => /\ spc \in {"L139", "L150"}
           /\ ~tick_fired
           /\ checkpoint = last_watered_at_time

C20_Witness ==
    /\ spc = "L150" /\ ~tick_fired
    /\ last_watered_at_time = Some(last_scheduled_time)
    /\ checkpoint = Some(<<11, 0>>) /\ now = <<14, 0>> /\ day = 1

(* the iteration read a checkpoint that is absent or differs from the due  *)
(* slot it computed for its non-empty regimen                              *)
CheckpointNotDue ==
    /\ spc \in {"L139", "L143", "L144", "L150"}
    /\ Len(cur_regimen[1]) # 0
    /\ (last_watered_at_time = None \/ last_watered_at_time # Some(last_scheduled_time))

(* C21: an iteration that read a checkpoint absent or different from its   *)
(* due slot goes on to call water(), once, and when water() has returned,  *)
(* True or False alike, writes the due slot to the checkpoint file before  *)
(* it sleeps                                                               *)
C21_AttemptThenPersist ==
    /\ [](CheckpointNotDue
            => /\ (spc \in {"L139", "L143"}
                      => ~tick_fired /\ checkpoint = last_watered_at_time)
               /\ (spc = "L144" => tick_fired /\ checkpoint = last_watered_at_time)
               /\ (spc = "L150"
                      => tick_fired /\ checkpoint = Some(last_scheduled_time)))
    /\ [][/\ (CheckpointNotDue /\ spc = "L139" /\ spc' # spc) => spc' = "L143"
          /\ (tick_fired' /\ ~tick_fired) => (spc = "L143" /\ spc' = "L144")
          /\ (spc = "L144" /\ spc' # spc)
                => (spc' = "L150" /\ checkpoint' = Some(last_scheduled_time))]_vars

C21_Witness ==
    /\ spc = "L150" /\ CheckpointNotDue /\ tick_fired /\ ~succeeded
    /\ last_watered_at_time # None
    /\ checkpoint = Some(last_scheduled_time)

(* C22: a Schedule.load() that raises JSONDecodeError leaves the loop at   *)
(* the load of the next iteration: the process has not ended, water() was  *)
(* not called, cur_schedule, cur_regimen and the checkpoint file are as    *)
(* before, also when cur_schedule is still None; the load that follows a   *)
(* failure and decodes goes on with the schedule of the file               *)
C22_DecodeFailureSkipsTick ==
    /\ [](load_failed => (spc = "L113" /\ ~tick_fired))
    /\ [][/\ (load_failed' /\ ~load_failed)
                => /\ spc = "L113" /\ spc' = "L113"
                   /\ cur_schedule' = cur_schedule /\ cur_regimen' = cur_regimen
                   /\ checkpoint' = checkpoint
                   /\ tick_fired' = tick_fired /\ last_fired' = last_fired
          /\ (load_failed /\ ~load_failed')
                => (spc' = "L117" /\ new_schedule' = store.schedule)]_vars

C22_Witness == load_failed /\ booted /\ cur_schedule = None /\ spc = "L113"

\* C23: for every non-empty regimen and every time of day,
\* get_last_scheduled_watering_time returns the largest entry that is not
\* after now, and the regimen's last entry when every entry is after now;
\* for <<360, 720>> it returns 06:00 at 07:00 and 12:00 at 05:00.
C23_LargestEntryNotAfterNow ==
    LET regimen == f_args[1]
        at      == f_args[2][1] * 60 + f_args[2][2]
        past    == {regimen[i] : i \in {j \in DOMAIN regimen : regimen[j] <= at}}
    IN  regimen # <<>>
            => /\ f_slot[2] \in 0..59
               /\ f_slot[1] * 60 + f_slot[2]
                     = IF past # {} THEN SetMax(past) ELSE regimen[Len(regimen)]
               /\ (regimen = <<360, 720>> /\ f_args[2] = <<7, 0>>) => f_slot = <<6, 0>>
               /\ (regimen = <<360, 720>> /\ f_args[2] = <<5, 0>>) => f_slot = <<12, 0>>

\* a call inside the hour of a slot and before it: 12:05 with a slot at 12:12
C23_Witness ==
    /\ f_args = <<<<660, 732, 804, 876, 948>>, <<12, 5>>>>
    /\ f_slot = <<11, 0>>

(* the least p with p * d >= a: ceil(a / d), found without dividing *)
LeastPeriod(a, d) == SetMin({p \in 1..a : p * d >= a})

(* the events of the latest call that lie inside a window *)
EventsIn(window) ==
    SelectSeq(f_regimen, LAMBDA t : window[1] * 60 <= t /\ t < window[2] * 60)

WindowContract(window, duration_minutes) ==
    LET events == EventsIn(window)
        period == LeastPeriod((window[2] - window[1]) * 60, duration_minutes)
    IN  IF duration_minutes = 0 THEN events = <<>>
        ELSE /\ Len(events) \in 1..duration_minutes
             /\ \A i \in DOMAIN events : events[i] = window[1] * 60 + (i - 1) * period

\* C24: for each window, get_watering_regimen emits no event when the
\* window's duration_minutes is 0; otherwise its events are start_hour*60 +
\* k*period for k = 0, 1, ... with period = ceil(window minutes /
\* duration_minutes), all inside the window and at most duration_minutes of
\* them; no event lies outside the three windows; (6,9,3) gives 360, 420,
\* 480 and (11,17,5) gives 660, 732, 804, 876, 948.
C24_WindowEvents ==
    f_schedule # None
        => LET schedule == f_schedule[1]
           IN  /\ WindowContract(MORNING, schedule.morning)
               /\ WindowContract(AFTERNOON, schedule.afternoon)
               /\ WindowContract(NIGHT, schedule.night)
               /\ f_regimen = EventsIn(MORNING) \o EventsIn(AFTERNOON) \o EventsIn(NIGHT)
               /\ schedule.morning = 3 => EventsIn(MORNING) = <<360, 420, 480>>
               /\ schedule.afternoon = 5
                     => EventsIn(AFTERNOON) = <<660, 732, 804, 876, 948>>

\* every window asked for, one of them with a period that does not divide it
C24_Witness ==
    /\ f_schedule = Some(Schedule(3, 5, 16))
    /\ Len(EventsIn(NIGHT)) = 15

C26_TransportFaultReturnsFalse ==
    c_fault # "none"
        => /\ cpc # "raised" /\ c_exc = "none"
           /\ cpc \notin {"L43", "L44", "L50"} /\ c_resp = "none"
           /\ cpc = "ret" => c_ret = Some("False")
           /\ spc # "off"

\* C27 as stated: when the response has a success field that is not a
\* boolean, the client returns no result and fails with a ProtocolError.
C27_NonBooleanFailsWithProtocolError ==
    (c_resp = "nonbool" /\ cpc # "L44")
        => /\ cpc # "ret" /\ c_ret = None
           /\ c_exc = "ProtocolError"

\* C27, amended: when the response has a success field that is not a
\* boolean, the client returns no result: the assert of line 47 fails with
\* an AssertionError, which leaves water() after the connection was closed.
C27_NonBooleanFailsAssertion ==
    (c_resp = "nonbool" /\ cpc # "L44")
        => /\ cpc # "ret" /\ c_ret = None
           /\ c_exc = "AssertionError"
           /\ cpc # "L50" => c_sock = "closed"

\* the call has ended on a response whose success field is not a boolean
C27_Witness == c_resp = "nonbool" /\ cpc = "raised" /\ c_sock = "closed"

\* C28: the client closes its write side after sending its request, so the
\* read-until-close of the service always ends; every request of a client
\* that connected and sent is eventually answered with one {"success":
\* <bool>} response, and the exchange never stays stuck.
C28_ExchangeCompletes ==
    /\ [](cpc \in {"L43", "L44", "L50"} => c_sock \in {"shut_wr", "closed"})
    /\ [](cpc \in {"L44", "L50", "ret"} /\ c_fault = "none" => Len(sent) = 1)
    /\ (svc = "L123") ~> (svc # "L123")
    /\ (cpc = "L43") ~> (c_resp \in {"true", "false"})

\* C30: at line 117 the loop replaces the schedule and compiles its regimen
\* when the schedule just loaded differs by value from the current one, and
\* leaves both as they are when it is equal; the regimen changes at no
\* other step; after every successful load the current schedule is the one
\* loaded and the current regimen is get_watering_regimen of it.
C30_RecompiledOnChange ==
    /\ [](cur_schedule # None
            => cur_regimen = Some(get_watering_regimen(cur_schedule[1])))
    /\ [](spc \in {"L131", "L137", "L139", "L143", "L144", "L150"}
            => cur_schedule = Some(new_schedule))
    /\ [][/\ (spc = "L117" /\ spc' # spc)
               => IF Some(new_schedule) # cur_schedule
                  THEN /\ cur_schedule' = Some(new_schedule)
                       /\ cur_regimen' = Some(get_watering_regimen(new_schedule))
                  ELSE UNCHANGED <<cur_schedule, cur_regimen>>
          /\ (cur_regimen' # cur_regimen \/ cur_schedule' # cur_schedule)
               => (spc = "L117" /\ Some(new_schedule) # cur_schedule)]_vars

\* a schedule saved while the loop runs has replaced one whose slot was
\* attempted, and its regimen is compiled
C30_Witness ==
    /\ spc = "L131" /\ dumps >= 1
    /\ cur_schedule = Some(Schedule(0, 2, 0))
    /\ cur_regimen = Some(<<660, 840>>)
    /\ last_fired # None /\ last_fired[1][2] \notin {660, 840}

\* C29: while the pump is on, once the float switch is low and stays low
\* the pump is switched off within one poll period (300 ms): the pump is
\* never on with the switch low for longer; every sleep step of a wait
\* follows a poll that read the switch high, and lasts at most the poll
\* period.
C29_PumpOffWithinPollPeriod ==
    /\ [](pump = "on" => low_on <= FLOAT_SWITCH_CHECK_PERIOD_MS)
    /\ [][/\ (pc' = "L57" /\ pc # "L57") => (pc = "L56" /\ ~float_low)
          /\ (pc = "L57" /\ pc' # "L57")
                => /\ pc' = "L52"
                   /\ (ticks' - ticks) % TICKS_PERIOD <= FLOAT_SWITCH_CHECK_PERIOD_MS
          /\ (pump = "on" /\ ticks' # ticks) => pc = "L57"
          /\ (pump = "on" /\ float_low /\ pc \in {"L52", "L56"} /\ pc' # pc)
                => pc' \in {"L77", "L56"}]_vars

\* the switch turned low after a poll of the pump-on wait and stayed low
\* through a whole sleep step; the pump is being switched off
C29_Witness ==
    /\ pump = "on" /\ float_low /\ pc = "L78"
    /\ low_on = FLOAT_SWITCH_CHECK_PERIOD_MS
    /\ exc = "float"

\* C31: while the current regimen is empty, which it is exactly when the
\* three durations of the current schedule are 0, the loop is never at the
\* statements that read the checkpoint, compare it, call water() or write
\* it (lines 133-148), and no step makes an attempt or changes the
\* checkpoint.
C31_EmptyRegimenTouchesNothing ==
    /\ [](cur_schedule # None
            => (cur_regimen = Some(<<>>) <=> cur_schedule = Some(Schedule(0, 0, 0))))
    /\ [](cur_regimen = Some(<<>>)
            => /\ spc \notin {"L137", "L139", "L143", "L144"}
               /\ ~tick_fired /\ last_watered_at_time = None)
    /\ [][(cur_regimen = Some(<<>>) /\ cur_regimen' = Some(<<>>))
            => /\ checkpoint' = checkpoint
               /\ last_fired' = last_fired /\ tick_fired' = tick_fired
               /\ last_watered_at_time' = last_watered_at_time]_vars

\* an iteration ends with an empty regimen that replaced one whose slot
\* was attempted and persisted
C31_Witness ==
    /\ spc = "L150" /\ cur_regimen = Some(<<>>)
    /\ now = HourMin(clock)
    /\ checkpoint # None /\ last_fired # None

StrictlyIncreasing(s) == \A i \in 1..(Len(s) - 1) : s[i] < s[i + 1]

\* C32: the regimen get_watering_regimen returns is strictly increasing, so
\* the entry the reverse scan of get_last_scheduled_watering_time stops at
\* has no later entry between it and now.
C32_RegimenStrictlyIncreasing ==
    /\ f_schedule # None => StrictlyIncreasing(f_regimen)
    /\ f_args[1] # <<>>
          => LET regimen == f_args[1]
                 at      == f_args[2][1] * 60 + f_args[2][2]
                 slot    == f_slot[1] * 60 + f_slot[2]
             IN  /\ StrictlyIncreasing(regimen)
                 /\ \E i \in DOMAIN regimen : regimen[i] = slot
                 /\ slot <= at => ~ \E i \in DOMAIN regimen :
                                        slot < regimen[i] /\ regimen[i] <= at

\* a regimen with events in two windows, the last of one below the first
\* of the next
C32_Witness ==
    /\ f_schedule = Some(Schedule(3, 0, 16))
    /\ Len(f_regimen) = 18 /\ f_regimen[3] = 480 /\ f_regimen[4] = 1140

\* C33: for every window with 0 < duration_minutes <= the window's minutes,
\* get_watering_regimen emits exactly duration_minutes events in it.
C33_ExactlyDurationEvents ==
    f_schedule # None
        => LET schedule == f_schedule[1]
               Exact(window, d) ==
                   (0 < d /\ d <= (window[2] - window[1]) * 60)
                       => Len(EventsIn(window)) = d
           IN  /\ Exact(MORNING, schedule.morning)
               /\ Exact(AFTERNOON, schedule.afternoon)
               /\ Exact(NIGHT, schedule.night)

\* C34: when the float switch turned low during the buffer wait of water()
\* and has stayed low since, the pump is not engaged in that call.
C34_LowInBufferWaitNeverEngages ==
    (low_since = "buffer" /\ float_low)
        => /\ ~pump_engaged /\ pump = "off"
           /\ "pump_on" \notin Range(cmds)

\* C35: a wait of d milliseconds has slept at most d milliseconds plus one
\* poll period, whatever the tick counter was when it began; so the pump-on
\* wait keeps the pump on no longer than the requested duration plus one
\* poll period.
C35_WaitBoundedAcrossWrap ==
    pc \in LoopPcs
        => /\ waited <= DurationMs + FLOAT_SWITCH_CHECK_PERIOD_MS
           /\ (wait = "pump" /\ pump = "on")
                 => waited <= duration * 1000 + FLOAT_SWITCH_CHECK_PERIOD_MS

====
